---- MODULE Spec2Model ----
(***************************************************************************)
(* log2excel: alignment of staged/production log lines, assembly of the    *)
(* comparison sheet, sheet-name uniqueness, and the XLSX archive codec.    *)
(*                                                                         *)
(* Strings are sequences of one-character strings, so that slicing,        *)
(* concatenation and escaping are computed, not assumed.  The empty        *)
(* string is <<>>.  Python's None is the empty option <<>>, a present      *)
(* value v is <<v>>.  Indices into Python lists stay 0-based where the     *)
(* code uses them (a[i] of the code is a[i + 1] here).                     *)
(***************************************************************************)
EXTENDS Integers, Sequences, FiniteSets, TLC

VARIABLES
    pc,          \* position of the modelled call
    stg_lines,   \* _align_logs / _build_rows_for_pair: staged lines
    prd_lines,   \* _align_logs / _build_rows_for_pair: production lines
    aligned,     \* result of _align_logs
    rows,        \* result of _build_rows_for_pair
    sheet_xml,   \* result of _build_sheet_xml: the worksheet part
    base_name,   \* _make_unique_sheet_name: argument base_name
    used_names,  \* _make_unique_sheet_name: argument used_names (mutated)
    counter,     \* _make_unique_sheet_name: loop counter
    sheet_name,  \* _make_unique_sheet_name: returned name, None before return
    used_on_entry, \* used_names as it was when the call began
    workbook,    \* write_xlsx: the sheets argument
    archive,     \* the zip archive write_xlsx produced, None before
    decoded,     \* what _load_existing_sheets made of the archive, None before
    output_file, \* the archive at output_path, None while the path is absent
    run_dirs,    \* the input directories of the generate_workbook runs so far
    pairs,       \* generate_workbook: the pairs the last run discovered
    written,     \* generate_workbook: the sheets the last run gave to write_xlsx
    outcome,     \* generate_workbook: "ok" or the exception of the last run
    path_ops,    \* generate_workbook: what the last run did with output_path
    verification \* verify_logs_against_workbook: its pairs and result, None before

pairVars == <<stg_lines, prd_lines, aligned, rows, sheet_xml>>

nameVars == <<base_name, used_names, counter, sheet_name, used_on_entry>>

codecVars == <<workbook, archive, decoded>>

bookVars == <<output_file, run_dirs, pairs, written, outcome, path_ops, verification>>

vars == <<pc, pairVars, nameVars, codecVars, bookVars>>

\* values of the variables a specification does not use
IdlePair ==
    /\ stg_lines = <<>>
    /\ prd_lines = <<>>
    /\ aligned = <<>>
    /\ rows = <<>>
    /\ sheet_xml = <<>>

IdleName ==
    /\ base_name = <<>>
    /\ used_names = {}
    /\ counter = 0
    /\ sheet_name = <<>>
    /\ used_on_entry = {}

IdleCodec ==
    /\ workbook = <<>>
    /\ archive = <<>>
    /\ decoded = <<>>

IdleBook ==
    /\ output_file = <<>>
    /\ run_dirs = <<>>
    /\ pairs = <<>>
    /\ written = <<>>
    /\ outcome = ""
    /\ path_ops = <<>>
    /\ verification = <<>>

----------------------------------------------------------------------------
(* Bounds *)

MaxLines == 3

\* widest row and longest grid of the workbooks given to write_xlsx
MaxCols == 2

MaxRows == 2

\* number of generate_workbook runs against the same output path
MaxRuns == 3

\* largest ".vN" suffix that may be taken when _make_unique_sheet_name is called
MaxTakenSuffix == 10

\* most sheets in the archive found at output_path by an appending run
MaxSheets == 2

\* most lines in a log file of the directories given to the verifier
MaxFileLines == 2

----------------------------------------------------------------------------
(* Generic helpers *)

None == <<>>

Some(v) == <<v>>

IsNone(o) == o = <<>>

Max(x, y) == IF x >= y THEN x ELSE y

SeqsUpTo(S, n) == UNION {[1..k -> S] : k \in 0..n}

RECURSIVE Flatten(_)
Flatten(ss) == IF ss = <<>> THEN <<>> ELSE Head(ss) \o Flatten(Tail(ss))

----------------------------------------------------------------------------
(* difflib.SequenceMatcher(a, b, autojunk=False), as _align_logs uses it *)

\* (i, j, k) with a[i:i+k] == b[j:j+k] inside a[alo:ahi], b[blo:bhi]
IsMatch(a, b, alo, ahi, blo, bhi, i, j, k) ==
    /\ alo <= i /\ i + k <= ahi
    /\ blo <= j /\ j + k <= bhi
    /\ \A d \in 0..(k - 1) : a[i + d + 1] = b[j + d + 1]

\* longest block; of those the one starting earliest in a, then earliest in b;
\* (alo, blo, 0) when nothing matches
find_longest_match(a, b, alo, ahi, blo, bhi) ==
    LET cands == {m \in (alo..ahi) \X (blo..bhi) \X (1..(ahi - alo)) :
                     IsMatch(a, b, alo, ahi, blo, bhi, m[1], m[2], m[3])}
        Better(m, n) == \/ m[3] > n[3]
                        \/ m[3] = n[3] /\ m[1] < n[1]
                        \/ m[3] = n[3] /\ m[1] = n[1] /\ m[2] <= n[2]
    IN  IF cands = {} THEN <<alo, blo, 0>>
        ELSE CHOOSE m \in cands : \A n \in cands : Better(m, n)

\* the blocks found by splitting around the longest match, in sorted order
RECURSIVE RawBlocks(_, _, _, _, _, _)
RawBlocks(a, b, alo, ahi, blo, bhi) ==
    LET x == find_longest_match(a, b, alo, ahi, blo, bhi)
        i == x[1]
        j == x[2]
        k == x[3]
    IN  IF k = 0 THEN <<>>
        ELSE (IF alo < i /\ blo < j
                 THEN RawBlocks(a, b, alo, i, blo, j) ELSE <<>>)
             \o <<x>>
             \o (IF i + k < ahi /\ j + k < bhi
                 THEN RawBlocks(a, b, i + k, ahi, j + k, bhi) ELSE <<>>)

\* adjacent equal blocks are collapsed: cur is the block being grown
RECURSIVE Collapse(_, _)
Collapse(blocks, cur) ==
    IF blocks = <<>>
    THEN IF cur[3] # 0 THEN <<cur>> ELSE <<>>
    ELSE LET nxt == Head(blocks)
         IN  IF cur[1] + cur[3] = nxt[1] /\ cur[2] + cur[3] = nxt[2]
             THEN Collapse(Tail(blocks), <<cur[1], cur[2], cur[3] + nxt[3]>>)
             ELSE (IF cur[3] # 0 THEN <<cur>> ELSE <<>>)
                  \o Collapse(Tail(blocks), nxt)

get_matching_blocks(a, b) ==
    Collapse(RawBlocks(a, b, 0, Len(a), 0, Len(b)), <<0, 0, 0>>)
        \o <<(<<Len(a), Len(b), 0>>)>>

\* opcodes <<tag, i1, i2, j1, j2>> walking the blocks from cursor (i, j)
RECURSIVE OpcodesFrom(_, _, _)
OpcodesFrom(blocks, i, j) ==
    IF blocks = <<>> THEN <<>>
    ELSE LET ai == Head(blocks)[1]
             bj == Head(blocks)[2]
             size == Head(blocks)[3]
             tag == IF i < ai /\ j < bj THEN "replace"
                    ELSE IF i < ai THEN "delete"
                    ELSE IF j < bj THEN "insert"
                    ELSE ""
         IN  (IF tag # "" THEN <<(<<tag, i, ai, j, bj>>)>> ELSE <<>>)
             \o (IF size # 0
                 THEN <<(<<"equal", ai, ai + size, bj, bj + size>>)>>
                 ELSE <<>>)
             \o OpcodesFrom(Tail(blocks), ai + size, bj + size)

get_opcodes(a, b) == OpcodesFrom(get_matching_blocks(a, b), 0, 0)

----------------------------------------------------------------------------
(* _align_logs: rows are <<stg text, prd text, stg line no, prd line no>> *)

\* OpcodeRows with a replace run split into its deletions then its insertions
OpcodeRows_SplitReplace(a, b, op) ==
    LET tag == op[1]
        i1 == op[2]
        i2 == op[3]
        j1 == op[4]
        j2 == op[5]
    IN  IF tag = "equal" THEN
            [o \in 1..(IF i2 - i1 <= j2 - j1 THEN i2 - i1 ELSE j2 - j1) |->
                <<a[i1 + o], b[j1 + o], Some(i1 + o), Some(j1 + o)>>]
        ELSE [o \in 1..(i2 - i1) |-> <<a[i1 + o], <<>>, Some(i1 + o), None>>]
             \o [o \in 1..(j2 - j1) |-> <<<<>>, b[j1 + o], None, Some(j1 + o)>>]

\* OpcodeRows with 0-based line numbers on equal runs
OpcodeRows_ZeroBased(a, b, op) ==
    LET tag == op[1]
        i1 == op[2]
        i2 == op[3]
        j1 == op[4]
        j2 == op[5]
    IN  IF tag = "equal" THEN
            [o \in 1..(IF i2 - i1 <= j2 - j1 THEN i2 - i1 ELSE j2 - j1) |->
                <<a[i1 + o], b[j1 + o], Some(i1 + o - 1), Some(j1 + o - 1)>>]
        ELSE IF tag = "replace" THEN
            [o \in 1..Max(i2 - i1, j2 - j1) |->
                << IF i1 + o - 1 < i2 THEN a[i1 + o] ELSE <<>>,
                   IF j1 + o - 1 < j2 THEN b[j1 + o] ELSE <<>>,
                   IF i1 + o - 1 < i2 THEN Some(i1 + o) ELSE None,
                   IF j1 + o - 1 < j2 THEN Some(j1 + o) ELSE None >>]
        ELSE [o \in 1..(i2 - i1) |-> <<a[i1 + o], <<>>, Some(i1 + o), None>>]
             \o [o \in 1..(j2 - j1) |-> <<<<>>, b[j1 + o], None, Some(j1 + o)>>]

\* OpcodeRows with a replace run cut to the shorter side
OpcodeRows_Min(a, b, op) ==
    LET tag == op[1]
        i1 == op[2]
        i2 == op[3]
        j1 == op[4]
        j2 == op[5]
    IN  IF tag \in {"equal", "replace"} THEN
            [o \in 1..(IF i2 - i1 <= j2 - j1 THEN i2 - i1 ELSE j2 - j1) |->
                <<a[i1 + o], b[j1 + o], Some(i1 + o), Some(j1 + o)>>]
        ELSE [o \in 1..(i2 - i1) |-> <<a[i1 + o], <<>>, Some(i1 + o), None>>]
             \o [o \in 1..(j2 - j1) |-> <<<<>>, b[j1 + o], None, Some(j1 + o)>>]

\* OpcodeRows with the padded side of a replace run numbered all the same
OpcodeRows_PadNumbered(a, b, op) ==
    LET tag == op[1]
        i1 == op[2]
        i2 == op[3]
        j1 == op[4]
        j2 == op[5]
    IN  IF tag = "equal" THEN
            [o \in 1..(IF i2 - i1 <= j2 - j1 THEN i2 - i1 ELSE j2 - j1) |->
                <<a[i1 + o], b[j1 + o], Some(i1 + o), Some(j1 + o)>>]
        ELSE IF tag = "replace" THEN
            [o \in 1..Max(i2 - i1, j2 - j1) |->
                << IF i1 + o - 1 < i2 THEN a[i1 + o] ELSE <<>>,
                   IF j1 + o - 1 < j2 THEN b[j1 + o] ELSE <<>>,
                   Some(i1 + o),
                   Some(j1 + o) >>]
        ELSE [o \in 1..(i2 - i1) |-> <<a[i1 + o], <<>>, Some(i1 + o), None>>]
             \o [o \in 1..(j2 - j1) |-> <<<<>>, b[j1 + o], None, Some(j1 + o)>>]

\* the rows appended for one opcode
OpcodeRows(a, b, op) ==
    LET tag == op[1]
        i1 == op[2]
        i2 == op[3]
        j1 == op[4]
        j2 == op[5]
    IN  IF tag = "equal" THEN
            \* zip(range(i1, i2), range(j1, j2))
            [o \in 1..(IF i2 - i1 <= j2 - j1 THEN i2 - i1 ELSE j2 - j1) |->
                <<a[i1 + o], b[j1 + o], Some(i1 + o), Some(j1 + o)>>]
        ELSE IF tag = "replace" THEN
            [o \in 1..Max(i2 - i1, j2 - j1) |->
                LET s_idx == i1 + o - 1
                    p_idx == j1 + o - 1
                IN  << IF s_idx < i2 THEN a[s_idx + 1] ELSE <<>>,
                       IF p_idx < j2 THEN b[p_idx + 1] ELSE <<>>,
                       IF s_idx < i2 THEN Some(s_idx + 1) ELSE None,
                       IF p_idx < j2 THEN Some(p_idx + 1) ELSE None >>]
        ELSE IF tag = "delete" THEN
            [o \in 1..(i2 - i1) |-> <<a[i1 + o], <<>>, Some(i1 + o), None>>]
        ELSE IF tag = "insert" THEN
            [o \in 1..(j2 - j1) |-> <<<<>>, b[j1 + o], None, Some(j1 + o)>>]
        ELSE <<>>

_align_logs(a, b) ==
    LET ops == get_opcodes(a, b)
    IN  Flatten([n \in 1..Len(ops) |-> OpcodeRows(a, b, ops[n])])

----------------------------------------------------------------------------
(* xlsx_writer.CellValue and the text helpers of the sheet builder.  A     *)
(* literal of the source that is not plain ASCII, or whose characters play *)
(* no part, is kept as one opaque token.                                   *)

CellValue(value, formula, data_type) ==
    [value |-> value, formula |-> formula, data_type |-> data_type]

\* CellValue(): value "", formula None, data_type None
EmptyCell == CellValue(<<>>, None, None)

\* Python truthiness of a str | None held as an option
Truthy(o) == o # None /\ o[1] # <<>>

Digits == <<"0", "1", "2", "3", "4", "5", "6", "7", "8", "9">>

\* str(n) for n >= 0
RECURSIVE Str(_)
Str(n) == IF n < 10 THEN <<Digits[n + 1]>>
          ELSE Str(n \div 10) \o <<Digits[(n % 10) + 1]>>

Letters == <<"A", "B", "C", "D", "E", "F", "G", "H", "I", "J", "K", "L", "M",
             "N", "O", "P", "Q", "R", "S", "T", "U", "V", "W", "X", "Y", "Z">>

\* 1-based column index to column letters
RECURSIVE _column_letter(_)
_column_letter(index) ==
    IF index = 0 THEN <<>>
    ELSE _column_letter((index - 1) \div 26) \o <<Letters[((index - 1) % 26) + 1]>>

SHEET_NAME_FORMULA ==
    <<"RIGHT(CELL(\"filename\",A1),LEN(CELL(\"filename\",A1))-FIND(\"]\",CELL(\"filename\",A1)))">>

\* the seven header rows; the Japanese literals are romanised tokens
_build_header_rows(stg_host, prd_host) ==
    << <<CellValue(<<"InfoOne-enmei-project">>, None, None),
         EmptyCell, EmptyCell, EmptyCell, EmptyCell>>,
       <<CellValue(<<"onpre-tantai-test(NewSTG-kiban)">>, None, None),
         EmptyCell, EmptyCell, EmptyCell, EmptyCell>>,
       <<EmptyCell, EmptyCell, EmptyCell, EmptyCell, EmptyCell>>,
       <<EmptyCell,
         CellValue(<<"taisho-server">>, None, None),
         CellValue(<<"biko">>, None, None),
         EmptyCell, EmptyCell>>,
       <<EmptyCell,
         CellValue(<<>>, Some(SHEET_NAME_FORMULA), Some("str")),
         EmptyCell, EmptyCell, EmptyCell>>,
       <<EmptyCell, EmptyCell, EmptyCell, EmptyCell, EmptyCell>>,
       <<EmptyCell,
         CellValue(<<"genko-server(">> \o stg_host \o <<")">>, None, None),
         CellValue(<<"sabun-umu">>, None, None),
         CellValue(<<"shin-kiban(">> \o prd_host \o <<")">>, None, None),
         CellValue(<<"biko">>, None, None)>> >>

\* the note written beside a pair of differing lines ("sai ari")
DIFF_NOTE == <<"sai-ari">>

\* f"B{current_row}=D{current_row}"
MatchFormula(current_row) ==
    <<"B">> \o Str(current_row) \o <<"=", "D">> \o Str(current_row)

\* the sheet row appended for one aligned row, current_row being the counter
DataRow(stg_line, prd_line, current_row) ==
    LET match_flag == IF stg_line = prd_line THEN <<"1">> ELSE <<"0">>
        note == IF match_flag = <<"1">> THEN <<>> ELSE DIFF_NOTE
    IN  << EmptyCell,
           CellValue(stg_line, None, None),
           CellValue(match_flag, Some(MatchFormula(current_row)), Some("b")),
           CellValue(prd_line, None, None),
           CellValue(note, None, None) >>

\* _build_rows_for_pair with the row counter started at len(header)
_build_rows_for_pair_CounterFromHeader(stg_host, prd_host, stg, prd) ==
    LET al == _align_logs(stg, prd)
        header == _build_header_rows(stg_host, prd_host)
        first_row == Len(header)
    IN  header \o [k \in 1..Len(al) |->
                      DataRow(al[k][1], al[k][2], first_row + k - 1)]

\* header rows, then one row per aligned row; current_row starts at
\* len(header) + 1 and grows by one per appended row
_build_rows_for_pair(stg_host, prd_host, stg, prd) ==
    LET al == _align_logs(stg, prd)
        header == _build_header_rows(stg_host, prd_host)
        first_row == Len(header) + 1
    IN  header \o [k \in 1..Len(al) |->
                      DataRow(al[k][1], al[k][2], first_row + k - 1)]

----------------------------------------------------------------------------
(* xlsx_writer._build_sheet_xml.  Character data is a sequence of items:   *)
(* a raw character or one entity reference.                                *)

\* xml.sax.saxutils.escape for one character
EscapeChar(c) == IF c = "&" THEN "&amp;"
                 ELSE IF c = "<" THEN "&lt;"
                 ELSE IF c = ">" THEN "&gt;"
                 ELSE c

escape(text) == [n \in 1..Len(text) |-> EscapeChar(text[n])]

\* escape(value).replace("\n", "&#10;")
EscapeInline(text) ==
    [n \in 1..Len(text) |-> IF text[n] = "\n" THEN "&#10;" ELSE EscapeChar(text[n])]

\* characters str.strip() removes
IsSpace(c) == c \in {" ", "\t", "\n", "\r", "\f"}

\* value.strip() != value
NeedsPreserve(value) ==
    value # <<>> /\ (IsSpace(value[1]) \/ IsSpace(value[Len(value)]))

\* any(cell.value or cell.formula for cell in row)
HasContent(cell) == cell.value # <<>> \/ Truthy(cell.formula)

\* the <c> element written for a cell that has a value or a formula
CellXml(cell, col_index, row_index) ==
    LET cell_ref == _column_letter(col_index) \o Str(row_index)
    IN  IF Truthy(cell.formula)
        THEN [r |-> cell_ref,
              t |-> IF cell.data_type # None /\ cell.data_type[1] # ""
                    THEN cell.data_type ELSE None,
              f |-> Some(escape(cell.formula[1])),
              v |-> IF cell.value # <<>> THEN Some(escape(cell.value)) ELSE None,
              is_t |-> None,
              preserve |-> FALSE]
        ELSE [r |-> cell_ref,
              t |-> Some("inlineStr"),
              f |-> None,
              v |-> None,
              is_t |-> Some(EscapeInline(cell.value)),
              preserve |-> NeedsPreserve(cell.value)]

\* the <row> element of one row: every row gets one, cells without value
\* and formula are skipped
RowXml(row, row_index, max_cols) ==
    [r |-> Str(row_index),
     spans |-> <<"1", ":">> \o Str(max_cols),
     cells |-> LET kept == SelectSeq([c \in 1..Len(row) |-> c],
                                     LAMBDA c : HasContent(row[c]))
               IN  [n \in 1..Len(kept) |-> CellXml(row[kept[n]], kept[n], row_index)]]

RECURSIVE MaxLen(_)
MaxLen(rs) == IF rs = <<>> THEN 0 ELSE Max(Len(Head(rs)), MaxLen(Tail(rs)))

\* the worksheet part: its <sheetData> rows
_build_sheet_xml(sheet_rows) ==
    LET max_cols == IF MaxLen(sheet_rows) = 0 THEN 1 ELSE MaxLen(sheet_rows)
    IN  [n \in 1..Len(sheet_rows) |-> RowXml(sheet_rows[n], n, max_cols)]

----------------------------------------------------------------------------
(* xlsx_writer.write_xlsx: the archive is a record of its parts.  A part   *)
(* the archive lacks is None; the worksheet parts are a function from part *)
(* name to part.                                                           *)

SheetData(name, sheet_rows) == [name |-> name, rows |-> sheet_rows]

\* the <sheet> elements of xl/workbook.xml; the name attribute is escape(name)
_build_workbook_xml(sheet_names) ==
    [index \in 1..Len(sheet_names) |->
        [name |-> escape(sheet_names[index]),
         sheetId |-> Str(index),
         rid |-> <<"rId">> \o Str(index)]]

SheetTarget(index) == <<"worksheets/sheet">> \o Str(index) \o <<".xml">>

\* the <Relationship> elements of xl/_rels/workbook.xml.rels
_build_workbook_rels_xml(sheet_count) ==
    [index \in 1..sheet_count |->
        [Id |-> <<"rId">> \o Str(index), Target |-> SheetTarget(index)]]
    \o << [Id |-> <<"rId">> \o Str(sheet_count + 1), Target |-> <<"styles.xml">>] >>

\* the <Override> part names of [Content_Types].xml
_build_content_types_xml(sheet_count) ==
    <<(<<"/xl/workbook.xml">>)>>
    \o [index \in 1..sheet_count |-> <<"/xl/">> \o SheetTarget(index)]
    \o <<(<<"/xl/styles.xml">>)>>

PartName(target) == <<"xl/">> \o target

\* write_xlsx for a non-empty list of sheets (an empty list raises ValueError)
write_xlsx(sheets) ==
    [content_types |-> Some(_build_content_types_xml(Len(sheets))),
     root_rels |-> Some(<<"xl/workbook.xml">>),
     workbook |-> Some(_build_workbook_xml([n \in 1..Len(sheets) |-> sheets[n].name])),
     workbook_rels |-> Some(_build_workbook_rels_xml(Len(sheets))),
     styles |-> Some(<<"styles">>),
     shared_strings |-> None,
     worksheets |-> [part \in {PartName(SheetTarget(n)) : n \in 1..Len(sheets)} |->
                        LET n == CHOOSE m \in 1..Len(sheets) :
                                     PartName(SheetTarget(m)) = part
                        IN  _build_sheet_xml(sheets[n].rows)]]

----------------------------------------------------------------------------
(* What xml.etree.ElementTree makes of the character data xlsx_writer      *)
(* wrote: the parser rejects a document that holds a character XML 1.0     *)
(* forbids, a bare "&" or "<", or a quote inside a quoted attribute; it    *)
(* resolves entity references, reads a carriage return as a line feed and, *)
(* in attribute values, reads tab and line feed as a space.                *)

\* control characters XML 1.0 forbids (of the characters modelled)
ForbiddenXmlChars == {"\f"}

TextWellFormed(items) ==
    \A n \in 1..Len(items) : items[n] \notin ForbiddenXmlChars \cup {"&", "<"}

AttrWellFormed(items) ==
    \A n \in 1..Len(items) : items[n] \notin ForbiddenXmlChars \cup {"&", "<", "\""}

Unescape(item) == IF item = "&amp;" THEN "&"
                  ELSE IF item = "&lt;" THEN "<"
                  ELSE IF item = "&gt;" THEN ">"
                  ELSE IF item = "&#10;" THEN "\n"
                  ELSE item

ParseText(items) ==
    [n \in 1..Len(items) |-> IF items[n] = "\r" THEN "\n" ELSE Unescape(items[n])]

ParseAttr(items) ==
    [n \in 1..Len(items) |-> IF items[n] \in {"\t", "\n", "\r"} THEN " "
                             ELSE Unescape(items[n])]

OptWellFormed(o) == o = None \/ TextWellFormed(o[1])

\* ET.fromstring accepts the worksheet part
SheetXmlWellFormed(xml) ==
    \A n \in 1..Len(xml) : \A c \in 1..Len(xml[n].cells) :
        /\ OptWellFormed(xml[n].cells[c].f)
        /\ OptWellFormed(xml[n].cells[c].v)
        /\ OptWellFormed(xml[n].cells[c].is_t)

\* ET.fromstring accepts xl/workbook.xml
WorkbookXmlWellFormed(xml) == \A n \in 1..Len(xml) : AttrWellFormed(xml[n].name)

----------------------------------------------------------------------------
(* log_to_excel._parse_sheet_rows and _load_existing_sheets *)

IsLetter(c) == \E n \in 1..Len(Letters) : Letters[n] = c

LetterValue(c) == CHOOSE n \in 1..Len(Letters) : Letters[n] = c

\* the letters of the reference read as a base-26 number
RECURSIVE ColumnIndexOf(_, _)
ColumnIndexOf(letters, index) ==
    IF letters = <<>> THEN index
    ELSE ColumnIndexOf(Tail(letters), index * 26 + LetterValue(Head(letters)))

_column_index_from_ref(cell_ref) == ColumnIndexOf(SelectSeq(cell_ref, IsLetter), 0)

IsDigit(c) == \E n \in 1..Len(Digits) : Digits[n] = c

\* int() accepts the text (plain decimal digits)
IsInt(text) == text # <<>> /\ \A n \in 1..Len(text) : IsDigit(text[n])

RECURSIVE ToInt(_, _)
ToInt(text, acc) ==
    IF text = <<>> THEN acc
    ELSE ToInt(Tail(text), acc * 10 + ((CHOOSE n \in 1..10 : Digits[n] = Head(text)) - 1))

\* int(value_node.text or "0") raises ValueError
CellRaises(c) ==
    c.t = Some("s") /\ c.v # None /\ c.v[1] # <<>> /\ ~IsInt(ParseText(c.v[1]))

\* the CellValue read from one <c> element
CellFromXml(c, shared_strings) ==
    LET text ==
            IF c.t = Some("s") /\ c.v # None THEN
                LET idx == IF c.v[1] = <<>> THEN 0 ELSE ToInt(ParseText(c.v[1]), 0)
                IN  IF idx < Len(shared_strings) THEN shared_strings[idx + 1] ELSE <<>>
            ELSE IF c.t = Some("inlineStr") THEN
                IF c.is_t = None THEN <<>> ELSE ParseText(c.is_t[1])
            ELSE IF c.v # None THEN ParseText(c.v[1])
            ELSE <<>>
        formula == IF c.f = None THEN None
                   ELSE IF c.f[1] = <<>> THEN None
                   ELSE Some(ParseText(c.f[1]))
    IN  CellValue(text, formula, c.t)

\* the cells dict: the last <c> element of a column wins
RowFromXml(xml_row, shared_strings) ==
    LET cols == {_column_index_from_ref(xml_row.cells[n].r) : n \in 1..Len(xml_row.cells)}
        max_col == IF cols = {} THEN 0
                   ELSE CHOOSE m \in cols : \A k \in cols : k <= m
        LastAt(col) == CHOOSE n \in 1..Len(xml_row.cells) :
                          /\ _column_index_from_ref(xml_row.cells[n].r) = col
                          /\ \A k \in (n + 1)..Len(xml_row.cells) :
                                 _column_index_from_ref(xml_row.cells[k].r) # col
    IN  [col \in 1..max_col |->
            IF col \in cols
            THEN CellFromXml(xml_row.cells[LastAt(col)], shared_strings)
            ELSE EmptyCell]

_parse_sheet_rows(xml, shared_strings) ==
    [n \in 1..Len(xml) |-> RowFromXml(xml[n], shared_strings)]

\* _load_shared_strings: [] when the archive has no shared-strings part
_load_shared_strings(zf) ==
    IF zf.shared_strings = None THEN <<>> ELSE zf.shared_strings[1]

\* the target of relationship rid in the rel_map dict, None when absent
RelTarget(rels, rid) ==
    LET hits == {n \in 1..Len(rels) : rels[n].Id = rid}
    IN  IF hits = {} THEN None
        ELSE Some(rels[CHOOSE n \in hits : \A k \in hits : k <= n].Target)

\* the <sheet> elements that are loaded: those whose relationship has a target
LoadableSheets(zf) ==
    SelectSeq(zf.workbook[1],
              LAMBDA sh : Truthy(RelTarget(zf.workbook_rels[1], sh.rid)))

\* the exception raised while one worksheet part is read and parsed, "" if none
SheetPartError(zf, part) ==
    IF part \notin DOMAIN zf.worksheets THEN "KeyError"
    ELSE IF ~SheetXmlWellFormed(zf.worksheets[part]) THEN "ParseError"
    ELSE IF \E r \in 1..Len(zf.worksheets[part]) :
                \E c \in 1..Len(zf.worksheets[part][r].cells) :
                    CellRaises(zf.worksheets[part][r].cells[c])
    THEN "ValueError"
    ELSE ""

\* the exception _load_existing_sheets raises, "" when it returns: the parts
\* are read in the order workbook, relationships, then the sheets one by one
LoadError(zf) ==
    IF zf.workbook = None THEN "KeyError"
    ELSE IF ~WorkbookXmlWellFormed(zf.workbook[1]) THEN "ParseError"
    ELSE IF zf.workbook_rels = None THEN "KeyError"
    ELSE LET shs == LoadableSheets(zf)
             Part(n) == PartName(RelTarget(zf.workbook_rels[1], shs[n].rid)[1])
             bad == {n \in 1..Len(shs) : SheetPartError(zf, Part(n)) # ""}
         IN  IF bad = {} THEN ""
             ELSE SheetPartError(zf, Part(CHOOSE n \in bad : \A k \in bad : n <= k))

\* the sheets _load_existing_sheets returns when it does not raise
LoadedSheets(zf) ==
    LET shs == LoadableSheets(zf)
        Part(n) == PartName(RelTarget(zf.workbook_rels[1], shs[n].rid)[1])
    IN  [n \in 1..Len(shs) |->
            SheetData(ParseAttr(shs[n].name),
                      _parse_sheet_rows(zf.worksheets[Part(n)], _load_shared_strings(zf)))]

_load_existing_sheets(zf) ==
    LET error == LoadError(zf)
    IN  IF error # ""
        THEN [error |-> error, sheets |-> <<>>]
        ELSE [error |-> "", sheets |-> LoadedSheets(zf)]

----------------------------------------------------------------------------
(* One pair through the aligner, the sheet builder and the sheet encoder.  *)
(* _read_log_lines can return any lines without a line break, the empty   *)
(* line included.                                                          *)

LogLines == {<<>>, <<"a">>, <<"b">>}

\* host names of the pair built in this pipeline (files Xs.log and Xp.log)
StgHost == <<"X", "s">>

PrdHost == <<"X", "p">>

InitAlign ==
    /\ pc = "align"
    /\ stg_lines \in SeqsUpTo(LogLines, MaxLines)
    /\ prd_lines \in SeqsUpTo(LogLines, MaxLines)
    /\ aligned = <<>>
    /\ rows = <<>>
    /\ sheet_xml = <<>>
    /\ IdleName
    /\ IdleCodec
    /\ IdleBook

Align ==
    /\ pc = "align"
    /\ aligned' = _align_logs(stg_lines, prd_lines)
    /\ pc' = "aligned"
    /\ UNCHANGED <<stg_lines, prd_lines, rows, sheet_xml, nameVars, codecVars, bookVars>>

BuildRows ==
    /\ pc = "aligned"
    /\ rows' = _build_rows_for_pair(StgHost, PrdHost, stg_lines, prd_lines)
    /\ pc' = "built"
    /\ UNCHANGED <<stg_lines, prd_lines, aligned, sheet_xml, nameVars, codecVars, bookVars>>

BuildSheetXml ==
    /\ pc = "built"
    /\ sheet_xml' = _build_sheet_xml(rows)
    /\ pc' = "encoded"
    /\ UNCHANGED <<stg_lines, prd_lines, aligned, rows, nameVars, codecVars, bookVars>>

NextAlign == Align \/ BuildRows \/ BuildSheetXml

SpecAlign == InitAlign /\ [][NextAlign]_vars

----------------------------------------------------------------------------
(* write_xlsx followed by _load_existing_sheets on workbooks of CellValue  *)
(* grids.                                                                  *)

FORMULA_B8 == <<"B", "8", "=", "D", "8">>

\* cells a grid may hold: empty, plain text, text with markup characters,
\* text with a form feed, a boolean formula with cached value, a formula
\* without cached value
CodecCells ==
    { EmptyCell,
      CellValue(<<"a">>, None, None),
      CellValue(<<"&", "<">>, None, None),
      CellValue(<<"\f">>, None, None),
      CellValue(<<"1">>, Some(FORMULA_B8), Some("b")),
      CellValue(<<>>, Some(SHEET_NAME_FORMULA), Some("str")) }

CodecRows == SeqsUpTo(CodecCells, MaxCols)

CodecGrids == SeqsUpTo(CodecRows, MaxRows)

CodecNames == {<<"X">>, <<"a", "&", "b">>}

FixedSheet == SheetData(<<"Z">>, << <<>>, <<EmptyCell, CellValue(<<"z">>, None, None)>> >>)

CodecWorkbooks ==
    {<<SheetData(n, g)>> : n \in CodecNames, g \in CodecGrids}
    \cup {<<SheetData(n, g), FixedSheet>> : n \in CodecNames, g \in CodecGrids}

InitCodec ==
    /\ pc = "write"
    /\ workbook \in CodecWorkbooks
    /\ archive = None
    /\ decoded = None
    /\ IdlePair
    /\ IdleName
    /\ IdleBook

WriteXlsx ==
    /\ pc = "write"
    /\ archive' = Some(write_xlsx(workbook))
    /\ pc' = "written"
    /\ UNCHANGED <<workbook, decoded, pairVars, nameVars, bookVars>>

LoadExistingSheets ==
    /\ pc = "written"
    /\ decoded' = Some(_load_existing_sheets(archive[1]))
    /\ pc' = "loaded"
    /\ UNCHANGED <<workbook, archive, pairVars, nameVars, bookVars>>

NextCodec == WriteXlsx \/ LoadExistingSheets

SpecCodec == InitCodec /\ [][NextCodec]_vars

----------------------------------------------------------------------------
(* _make_unique_sheet_name *)

SHEET_NAME_MAX == 31

\* Python s[:n]: the first n items, or all but the last -n when n < 0
SliceTo(s, n) ==
    IF n >= 0 THEN SubSeq(s, 1, IF n < Len(s) THEN n ELSE Len(s))
    ELSE SubSeq(s, 1, Max(Len(s) + n, 0))

\* f".v{counter}"
Suffix(c) == <<".", "v">> \o Str(c)

\* Candidate without the cut to max_len
Candidate_NoCut(base, c) == base \o Suffix(c)

\* Candidate that always keeps room for a three-character suffix
Candidate_FixedCut(base, c) == SliceTo(base, SHEET_NAME_MAX - 3) \o Suffix(c)

\* base_name[:max_len] + suffix, with max_len = 31 - len(suffix)
Candidate(base, c) == SliceTo(base, SHEET_NAME_MAX - Len(Suffix(c))) \o Suffix(c)

\* the while loop from a given counter: the first candidate not in used
RECURSIVE UniqueFrom(_, _, _)
UniqueFrom(base, used, c) ==
    IF Candidate(base, c) \notin used THEN Candidate(base, c)
    ELSE UniqueFrom(base, used, c + 1)

\* the name the whole call returns; used_names gains exactly that name
_make_unique_sheet_name(base, used) ==
    IF base \notin used THEN base ELSE UniqueFrom(base, used, 2)

\* a name of n characters ending in tail
LongName(n, tail) == [i \in 1..(n - 1) |-> "n"] \o <<tail>>

\* base names generate_workbook can pass: pair.base_name[:31], so at most 31
\* characters, the empty name included
BaseNames == {<<>>, <<"X">>, LongName(28, "x"), LongName(29, "x"), LongName(31, "x")}

\* names that may already be reserved: the base, its candidates, another name
TakenUniverse(base) ==
    {base, <<"Z">>} \cup {Candidate(base, c) : c \in 2..MaxTakenSuffix}

InitName ==
    /\ pc = "name_entry"
    /\ base_name \in BaseNames
    /\ used_names \in SUBSET TakenUniverse(base_name)
    /\ used_on_entry = used_names
    /\ counter = 0
    /\ sheet_name = None
    /\ IdlePair
    /\ IdleCodec
    /\ IdleBook

\* lines 266-269: the base name is free, or the loop starts at counter 2
CheckBase ==
    /\ pc = "name_entry"
    /\ IF base_name \notin used_names
       THEN /\ used_names' = used_names \cup {base_name}
            /\ sheet_name' = Some(base_name)
            /\ pc' = "name_done"
            /\ UNCHANGED counter
       ELSE /\ counter' = 2
            /\ pc' = "name_loop"
            /\ UNCHANGED <<used_names, sheet_name>>
    /\ UNCHANGED <<base_name, used_on_entry, pairVars, codecVars, bookVars>>

\* lines 270-277: one pass of the while loop
TryCandidate ==
    /\ pc = "name_loop"
    /\ LET candidate == Candidate(base_name, counter)
       IN  IF candidate \notin used_names
           THEN /\ used_names' = used_names \cup {candidate}
                /\ sheet_name' = Some(candidate)
                /\ pc' = "name_done"
                /\ UNCHANGED counter
           ELSE /\ counter' = counter + 1
                /\ UNCHANGED <<used_names, sheet_name, pc>>
    /\ UNCHANGED <<base_name, used_on_entry, pairVars, codecVars, bookVars>>

NextName == CheckBase \/ TryCandidate

\* the call runs to its return: a single thread of control with no blocking
SpecName == InitName /\ [][NextName]_vars /\ WF_vars(NextName)

----------------------------------------------------------------------------
(* _extract_host_name and _discover_pairs.  A directory entry is a *.log   *)
(* file: its stem and the lines _read_log_lines returns for it.            *)

LogFile(stem, lines) == [stem |-> stem, lines |-> lines]

DIFF_MARK == <<"d", "i", "f", "f", "_">>

\* index of the first occurrence of pat in s, 0 when there is none
FindSub(s, pat) ==
    LET hits == {i \in 1..(Len(s) - Len(pat) + 1) : SubSeq(s, i, i + Len(pat) - 1) = pat}
    IN  IF hits = {} THEN 0 ELSE CHOOSE i \in hits : \A k \in hits : i <= k

\* stem.split("diff_", 1)[1] when the stem contains "diff_"
_extract_host_name(stem) ==
    IF FindSub(stem, DIFF_MARK) # 0
    THEN SubSeq(stem, FindSub(stem, DIFF_MARK) + Len(DIFF_MARK), Len(stem))
    ELSE stem

LowerLetters == <<"a", "b", "c", "d", "e", "f", "g", "h", "i", "j", "k", "l", "m",
                  "n", "o", "p", "q", "r", "s", "t", "u", "v", "w", "x", "y", "z">>

Lower(c) == IF IsLetter(c) THEN LowerLetters[LetterValue(c)] ELSE c

\* host name of a directory entry
HostOf(entry) == _extract_host_name(entry.stem)

\* the entries that go to stg_files (side "s") or prd_files (side "p"):
\* non-empty host whose last character, lowered, is the side
SideEntries(dir, side) ==
    {e \in dir : HostOf(e) # <<>> /\ Lower(HostOf(e)[Len(HostOf(e))]) = side}

\* host[:-1]
BaseOf(entry) == SubSeq(HostOf(entry), 1, Len(HostOf(entry)) - 1)

\* the dicts the loop over glob can leave for a side: glob lists the entries
\* in any order and a later entry of a base replaces an earlier one, so each
\* base keeps any one of its entries
SideDicts(dir, side) ==
    LET entries == SideEntries(dir, side)
        bases == {BaseOf(e) : e \in entries}
    IN  {d \in [bases -> entries] : \A base \in bases : BaseOf(d[base]) = base}

\* characters in code point order
CharOrder == <<"\t", "\n", "\f", "\r", " ", "\"", "&", ".",
               "0", "1", "2", "3", "4", "5", "6", "7", "8", "9", "<", "=", ">">>
             \o Letters \o <<"_">> \o LowerLetters

Ord(c) == CHOOSE n \in 1..Len(CharOrder) : CharOrder[n] = c

\* x < y as Python compares str
RECURSIVE TextLess(_, _)
TextLess(x, y) ==
    IF y = <<>> THEN FALSE
    ELSE IF x = <<>> THEN TRUE
    ELSE IF Head(x) # Head(y) THEN Ord(Head(x)) < Ord(Head(y))
    ELSE TextLess(Tail(x), Tail(y))

\* sorted(S) for a set of str
RECURSIVE Sorted(_)
Sorted(S) ==
    IF S = {} THEN <<>>
    ELSE LET least == CHOOSE x \in S : \A y \in S \ {x} : TextLess(x, y)
         IN  <<least>> \o Sorted(S \ {least})

LogPair(base, stg_host, prd_host, stg, prd) ==
    [base_name |-> base, stg_host |-> stg_host, prd_host |-> prd_host,
     stg_lines |-> stg, prd_lines |-> prd]

\* the pairs of the bases found in both dicts, in ascending base order
_discover_pairs(stg_files, prd_files) ==
    LET bases == Sorted(DOMAIN stg_files \cap DOMAIN prd_files)
    IN  [n \in 1..Len(bases) |->
            LogPair(bases[n], HostOf(stg_files[bases[n]]), HostOf(prd_files[bases[n]]),
                    stg_files[bases[n]].lines, prd_files[bases[n]].lines)]

----------------------------------------------------------------------------
(* generate_workbook *)

\* lines 294-299: one sheet per pair, each name reserved in used_names
RECURSIVE NewSheets(_, _)
NewSheets(ps, used) ==
    IF ps = <<>> THEN <<>>
    ELSE LET pair == Head(ps)
             sheet_rows == _build_rows_for_pair(pair.stg_host, pair.prd_host,
                                                pair.stg_lines, pair.prd_lines)
             name == _make_unique_sheet_name(SliceTo(pair.base_name, SHEET_NAME_MAX), used)
         IN  <<SheetData(name, sheet_rows)>> \o NewSheets(Tail(ps), used \cup {name})

\* a generate_workbook that decodes the existing archive before it looks at
\* the discovered pairs
generate_workbook_LoadFirst(ps, file) ==
    LET existing == IF file = None THEN [error |-> "", sheets |-> <<>>]
                    ELSE _load_existing_sheets(file[1])
        used == {existing.sheets[n].name : n \in 1..Len(existing.sheets)}
        all == existing.sheets \o NewSheets(ps, used)
        probed == IF file = None THEN <<"exists">> ELSE <<"exists", "read">>
    IN  IF existing.error # ""
        THEN [outcome |-> existing.error, file |-> file, written |-> <<>>,
              path_ops |-> probed]
        ELSE IF ps = <<>>
        THEN [outcome |-> "FileNotFoundError", file |-> file, written |-> <<>>,
              path_ops |-> probed]
        ELSE [outcome |-> "ok", file |-> Some(write_xlsx(all)), written |-> all,
              path_ops |-> Append(probed, "write")]

\* the run that discovered the pairs ps, against the file at output_path:
\* its outcome, the file it leaves, what it gave to write_xlsx, and what it
\* did with output_path in order ("exists": output_path.exists(), "read":
\* zipfile.ZipFile(output_path) in _load_existing_sheets, "write": write_xlsx)
generate_workbook(ps, file) ==
    LET existing == IF file = None THEN [error |-> "", sheets |-> <<>>]
                    ELSE _load_existing_sheets(file[1])
        used == {existing.sheets[n].name : n \in 1..Len(existing.sheets)}
        all == existing.sheets \o NewSheets(ps, used)
        probed == IF file = None THEN <<"exists">> ELSE <<"exists", "read">>
    IN  IF ps = <<>>
        THEN [outcome |-> "FileNotFoundError", file |-> file, written |-> <<>>,
              path_ops |-> <<>>]
        ELSE IF existing.error # ""
        THEN [outcome |-> existing.error, file |-> file, written |-> <<>>,
              path_ops |-> probed]
        ELSE [outcome |-> "ok", file |-> Some(write_xlsx(all)), written |-> all,
              path_ops |-> Append(probed, "write")]

\* input directories of the runs
PlainDir ==
    { LogFile(<<"X", "s">>, << <<"a">>, <<"b">> >>),
      LogFile(<<"X", "p">>, << <<"a">> >>) }

\* files s.log and p.log
BareSuffixDir ==
    { LogFile(<<"s">>, << <<"a">> >>),
      LogFile(<<"p">>, << <<"a">> >>) }

\* a staged log with a form feed in a line
FormFeedDir ==
    { LogFile(<<"Y", "s">>, << <<"a", "\f">> >>),
      LogFile(<<"Y", "p">>, << <<"a">> >>) }

\* a tab in the file names
TabNameDir ==
    { LogFile(<<"a", "\t", "b", "s">>, << <<"a">> >>),
      LogFile(<<"a", "\t", "b", "P">>, << <<"a">> >>) }

\* markup characters in name and lines, an empty line
MarkupDir ==
    { LogFile(<<"A", "&", "B", "s">>, << <<"<", "&", ">">>, <<>> >>),
      LogFile(<<"A", "&", "B", "p">>, << <<>>, <<"a">> >>) }

\* no file of the production side
NoPairDir ==
    { LogFile(<<"X", "s">>, << <<"a">> >>) }

\* two pairs whose 32-character bases share their first 31 characters
LongNameDir ==
    { LogFile(LongName(32, "2") \o <<"s">>, << <<"b">> >>),
      LogFile(LongName(32, "2") \o <<"p">>, << <<"b">> >>),
      LogFile(LongName(32, "1") \o <<"s">>, << <<"a">> >>),
      LogFile(LongName(32, "1") \o <<"p">>, << <<"a">> >>) }

\* "diff_" prefixes, and two staged files of the same base
DiffPrefixDir ==
    { LogFile(<<"o", "l", "d", "_">> \o DIFF_MARK \o <<"X", "s">>, << <<"a">> >>),
      LogFile(<<"X", "S">>, << <<"b">> >>),
      LogFile(DIFF_MARK \o <<"X", "p">>, << <<"a">> >>) }

InputDirs == {PlainDir, BareSuffixDir, FormFeedDir, TabNameDir, MarkupDir,
              NoPairDir, LongNameDir, DiffPrefixDir}

Init ==
    /\ pc = "idle"
    /\ output_file = None
    /\ run_dirs = <<>>
    /\ pairs = <<>>
    /\ written = <<>>
    /\ outcome = ""
    /\ path_ops = <<>>
    /\ verification = None
    /\ IdlePair
    /\ IdleName
    /\ IdleCodec

\* one run of generate_workbook(input_dir, output_path)
GenerateWorkbook ==
    /\ Len(run_dirs) < MaxRuns
    /\ \E dir \in InputDirs :
       \E stg_files \in SideDicts(dir, "s"), prd_files \in SideDicts(dir, "p") :
           LET ps == _discover_pairs(stg_files, prd_files)
               run == generate_workbook(ps, output_file)
           IN  /\ output_file' = run.file
               /\ pairs' = ps
               /\ written' = run.written
               /\ outcome' = run.outcome
               /\ path_ops' = run.path_ops
               /\ run_dirs' = Append(run_dirs, dir)
    /\ UNCHANGED <<pc, verification, pairVars, nameVars, codecVars>>

Next == GenerateWorkbook

Spec == Init /\ [][Next]_vars

----------------------------------------------------------------------------
(* _load_existing_sheets and generate_workbook on an archive found at      *)
(* output_path: one that write_xlsx made, as it is or with a part or a     *)
(* relationship entry gone.                                                *)

AppendNames == {<<"X">>, <<"Y">>, <<"Z">>}

AppendGrids ==
    { << <<CellValue(<<"a">>, None, None)>> >>,
      << <<>>, <<EmptyCell, CellValue(<<"z">>, None, None)>> >> }

\* workbooks of one to MaxSheets sheets with distinct names
AppendWorkbooks ==
    {wb \in SeqsUpTo({SheetData(n, g) : n \in AppendNames, g \in AppendGrids}, MaxSheets) :
        /\ wb # <<>>
        /\ \A i, j \in 1..Len(wb) : i # j => wb[i].name # wb[j].name}

\* the archive without its xl/workbook.xml
WithoutWorkbook(zf) == [zf EXCEPT !.workbook = None]

\* the archive without its xl/_rels/workbook.xml.rels
WithoutRels(zf) == [zf EXCEPT !.workbook_rels = None]

\* the archive whose relationships part has no <Relationship> of this Id
WithoutRelEntry(zf, rid) ==
    [zf EXCEPT !.workbook_rels = Some(SelectSeq(zf.workbook_rels[1],
                                                LAMBDA rel : rel.Id # rid))]

\* the archive without this worksheet part
WithoutWorksheet(zf, part) ==
    [zf EXCEPT !.worksheets = [p \in (DOMAIN zf.worksheets) \ {part} |-> zf.worksheets[p]]]

ArchivesOf(zf) ==
    {zf, WithoutWorkbook(zf), WithoutRels(zf)}
    \cup {WithoutRelEntry(zf, zf.workbook[1][n].rid) : n \in 1..Len(zf.workbook[1])}
    \cup {WithoutWorksheet(zf, part) : part \in DOMAIN zf.worksheets}

ExistingArchives == UNION {ArchivesOf(write_xlsx(wb)) : wb \in AppendWorkbooks}

\* input directories of the appending run
AppendDirs == {PlainDir, NoPairDir}

InitAppend ==
    /\ pc = "append"
    /\ archive \in {Some(zf) : zf \in ExistingArchives}
    /\ output_file = archive
    /\ workbook = <<>>
    /\ decoded = None
    /\ run_dirs = <<>>
    /\ pairs = <<>>
    /\ written = <<>>
    /\ outcome = ""
    /\ path_ops = <<>>
    /\ verification = None
    /\ IdlePair
    /\ IdleName

\* _load_existing_sheets(output_path)
LoadForAppend ==
    /\ pc = "append"
    /\ decoded' = Some(_load_existing_sheets(output_file[1]))
    /\ pc' = "decoded"
    /\ UNCHANGED <<workbook, archive, pairVars, nameVars, bookVars>>

\* generate_workbook(input_dir, output_path) with the archive at output_path
AppendRun ==
    /\ pc = "decoded"
    /\ \E dir \in AppendDirs :
       \E stg_files \in SideDicts(dir, "s"), prd_files \in SideDicts(dir, "p") :
           LET ps == _discover_pairs(stg_files, prd_files)
               run == generate_workbook(ps, output_file)
           IN  /\ output_file' = run.file
               /\ pairs' = ps
               /\ written' = run.written
               /\ outcome' = run.outcome
               /\ path_ops' = run.path_ops
               /\ run_dirs' = Append(run_dirs, dir)
    /\ pc' = "appended"
    /\ UNCHANGED <<verification, pairVars, nameVars, codecVars>>

NextAppend == LoadForAppend \/ AppendRun

SpecAppend == InitAppend /\ [][NextAppend]_vars

----------------------------------------------------------------------------
(* verify_workbook: _load_sheet_texts and verify_logs_against_workbook,    *)
(* run after a generate_workbook on an absent output path.                 *)

\* the text of every <t> element of a worksheet part, in document order
TextsOf(xml) ==
    Flatten([r \in 1..Len(xml) |->
                LET inline == SelectSeq(xml[r].cells, LAMBDA c : c.is_t # None)
                IN  [n \in 1..Len(inline) |-> ParseText(inline[n].is_t[1])]])

\* the exception raised for one <sheet> element, "" if none: rels[rid],
\* zf.read of the worksheet part, ET.fromstring
SheetTextsError(zf, sheet) ==
    LET target == RelTarget(zf.workbook_rels[1], sheet.rid)
    IN  IF target = None THEN "KeyError"
        ELSE IF PartName(target[1]) \notin DOMAIN zf.worksheets THEN "KeyError"
        ELSE IF ~SheetXmlWellFormed(zf.worksheets[PartName(target[1])]) THEN "ParseError"
        ELSE ""

\* the sheet_texts dict, or the exception raised on the way
_load_sheet_texts(zf) ==
    IF zf.workbook = None THEN [error |-> "KeyError", texts |-> <<>>]
    ELSE IF ~WorkbookXmlWellFormed(zf.workbook[1]) THEN [error |-> "ParseError", texts |-> <<>>]
    ELSE IF zf.workbook_rels = None THEN [error |-> "KeyError", texts |-> <<>>]
    ELSE LET sheets == zf.workbook[1]
             bad == {n \in 1..Len(sheets) : SheetTextsError(zf, sheets[n]) # ""}
             names == {ParseAttr(sheets[n].name) : n \in 1..Len(sheets)}
             \* a later sheet of the same name replaces the earlier entry
             Last(name) == CHOOSE n \in 1..Len(sheets) :
                               /\ ParseAttr(sheets[n].name) = name
                               /\ \A k \in (n + 1)..Len(sheets) :
                                      ParseAttr(sheets[k].name) # name
             Part(n) == PartName(RelTarget(zf.workbook_rels[1], sheets[n].rid)[1])
         IN  IF bad # {}
             THEN [error |-> SheetTextsError(zf, sheets[CHOOSE n \in bad :
                                                           \A k \in bad : n <= k]),
                   texts |-> <<>>]
             ELSE [error |-> "",
                   texts |-> [name \in names |-> TextsOf(zf.worksheets[Part(Last(name))])]]

\* the lines of the pair that the sheet values do not hold
MissingLines(pair, value_set) ==
    {line \in {pair.stg_lines[n] : n \in 1..Len(pair.stg_lines)}
               \cup {pair.prd_lines[n] : n \in 1..Len(pair.prd_lines)} :
        line # <<>> /\ line \notin value_set}

\* the verification of the pairs ps against the file at workbook_path: the
\* exception raised, or "" and the value returned
verify_logs_against_workbook(ps, file) ==
    IF file = None THEN [error |-> "FileNotFoundError", ok |-> FALSE]
    ELSE LET loaded == _load_sheet_texts(file[1])
             ValueSet(pair) ==
                 LET name == SliceTo(pair.base_name, SHEET_NAME_MAX)
                 IN  IF name \in DOMAIN loaded.texts
                     THEN {loaded.texts[name][n] : n \in 1..Len(loaded.texts[name])}
                     ELSE {}
         IN  IF loaded.error # "" THEN [error |-> loaded.error, ok |-> FALSE]
             ELSE [error |-> "",
                   ok |-> \A n \in 1..Len(ps) : MissingLines(ps[n], ValueSet(ps[n])) = {}]

\* directories of one pair X with any lines in its two logs
OnePairDirs ==
    { { LogFile(<<"X", "s">>, stg), LogFile(<<"X", "p">>, prd) } :
          stg \in SeqsUpTo(LogLines, MaxFileLines), prd \in SeqsUpTo(LogLines, MaxFileLines) }

\* two pairs with short names
TwoPairDir ==
    { LogFile(<<"X", "s">>, << <<"a">> >>),
      LogFile(<<"X", "p">>, << <<"a">> >>),
      LogFile(<<"Y", "s">>, << <<"b">> >>),
      LogFile(<<"Y", "p">>, << <<"b">>, <<"a">> >>) }

\* one pair whose base has 32 characters
LongSingleDir ==
    { LogFile(LongName(32, "1") \o <<"s">>, << <<"a">> >>),
      LogFile(LongName(32, "1") \o <<"p">>, << <<"b">> >>) }

VerifyDirs == InputDirs \cup OnePairDirs \cup {TwoPairDir, LongSingleDir}

InitVerify ==
    /\ pc = "generate"
    /\ output_file = None
    /\ run_dirs = <<>>
    /\ pairs = <<>>
    /\ written = <<>>
    /\ outcome = ""
    /\ path_ops = <<>>
    /\ verification = None
    /\ IdlePair
    /\ IdleName
    /\ IdleCodec

\* generate_workbook(input_dir, output_path), output_path absent
FirstRun ==
    /\ pc = "generate"
    /\ \E dir \in VerifyDirs :
       \E stg_files \in SideDicts(dir, "s"), prd_files \in SideDicts(dir, "p") :
           LET ps == _discover_pairs(stg_files, prd_files)
               run == generate_workbook(ps, output_file)
           IN  /\ output_file' = run.file
               /\ pairs' = ps
               /\ written' = run.written
               /\ outcome' = run.outcome
               /\ path_ops' = run.path_ops
               /\ run_dirs' = Append(run_dirs, dir)
    /\ pc' = "generated"
    /\ UNCHANGED <<verification, pairVars, nameVars, codecVars>>

\* verify_logs_against_workbook(input_dir, output_path) on the same directory
VerifyLogsAgainstWorkbook ==
    /\ pc = "generated"
    /\ \E stg_files \in SideDicts(run_dirs[1], "s"), prd_files \in SideDicts(run_dirs[1], "p") :
           LET ps == _discover_pairs(stg_files, prd_files)
           IN  verification' = Some([pairs |-> ps,
                                     result |-> verify_logs_against_workbook(ps, output_file)])
    /\ pc' = "verified"
    /\ UNCHANGED <<output_file, run_dirs, pairs, written, outcome, path_ops,
                   pairVars, nameVars, codecVars>>

NextVerify == FirstRun \/ VerifyLogsAgainstWorkbook

SpecVerify == InitVerify /\ [][NextVerify]_vars

----------------------------------------------------------------------------
(* Properties of _make_unique_sheet_name *)

\* the n-th name of the sequence base, base[:28]+".v2", base[:28]+".v3", ...
\* with the prefix shortened so that the whole name has at most 31 characters
NthName(base, n) ==
    IF n = 1 THEN base
    ELSE LET digits == Str(n)
             room == 31 - 2 - Len(digits)
             prefix == IF Len(base) <= room THEN base ELSE SubSeq(base, 1, room)
         IN  prefix \o <<".", "v">> \o digits

ReturnedFirstFree ==
    /\ sheet_name # None
    /\ \E n \in 1..(MaxTakenSuffix + 1) :
           /\ sheet_name[1] = NthName(base_name, n)
           /\ NthName(base_name, n) \notin used_on_entry
           /\ \A m \in 1..(n - 1) : NthName(base_name, m) \in used_on_entry
    /\ Len(sheet_name[1]) <= 31
    /\ used_names = used_on_entry \cup {sheet_name[1]}
    /\ sheet_name[1] \notin used_on_entry

\* C6: for a base name of at most 31 characters and a finite used_names the
\* call terminates, returns the first name of the sequence base,
\* base[:28]+".v2", base[:28]+".v3", ... that was not in used_names on entry,
\* the name has at most 31 characters, and used_names ends as the old set plus
\* exactly that name.
C6_TerminatesWithFirstFreeName ==
    /\ <>(pc = "name_done")
    /\ [](pc = "name_done" => ReturnedFirstFree)
    /\ [](pc # "name_done" => (sheet_name = None /\ used_names = used_on_entry))

C6_Witness ==
    /\ pc = "name_done"
    /\ Len(base_name) = 31
    /\ counter = 10
    /\ sheet_name = Some(SubSeq(base_name, 1, 27) \o <<".", "v", "1", "0">>)

----------------------------------------------------------------------------
(* Properties of _align_logs *)

HasStgNo(row) == ~IsNone(row[3])

HasPrdNo(row) == ~IsNone(row[4])

Disjoint(a, b) == \A i \in 1..Len(a), j \in 1..Len(b) : a[i] # b[j]

\* the row that pairs position k of a with position k of b, padding past the end
PaddedRow(a, b, k) ==
    << IF k <= Len(a) THEN a[k] ELSE <<>>,
       IF k <= Len(b) THEN b[k] ELSE <<>>,
       IF k <= Len(a) THEN Some(k) ELSE None,
       IF k <= Len(b) THEN Some(k) ELSE None >>

\* C1 as stated: for a and b without a common line the result is len(a)+len(b)
\* rows, first one pure-delete row per line of a, then one pure-insert row per
\* line of b, and no row carries a line of a together with a line of b.
C1_DisjointDeleteThenInsert ==
    (pc = "aligned" /\ Disjoint(stg_lines, prd_lines)) =>
        /\ Len(aligned) = Len(stg_lines) + Len(prd_lines)
        /\ \A k \in 1..Len(stg_lines) :
               aligned[k] = <<stg_lines[k], <<>>, Some(k), None>>
        /\ \A k \in 1..Len(prd_lines) :
               aligned[Len(stg_lines) + k] = <<<<>>, prd_lines[k], None, Some(k)>>

\* C1 amended: for a and b without a common line the result is
\* max(len(a), len(b)) rows, and row k pairs a[k] with b[k] (both numbered k)
\* where both exist; past the end of the shorter sequence that side's text is
\* empty and its line number absent.
C1_DisjointPadded ==
    (pc = "aligned" /\ Disjoint(stg_lines, prd_lines)) =>
        /\ Len(aligned) = Max(Len(stg_lines), Len(prd_lines))
        /\ \A k \in 1..Len(aligned) :
               aligned[k] = PaddedRow(stg_lines, prd_lines, k)

C1_Witness ==
    /\ pc = "aligned"
    /\ Disjoint(stg_lines, prd_lines)
    /\ Len(stg_lines) = 2
    /\ Len(prd_lines) = 1
    /\ Len(aligned) = 2

\* C2: aligning a sequence with itself gives len(a) rows, the i-th being
\* (a[i], a[i], i, i).
C2_SelfAlignment ==
    (pc = "aligned" /\ stg_lines = prd_lines) =>
        /\ Len(aligned) = Len(stg_lines)
        /\ \A i \in 1..Len(stg_lines) :
               aligned[i] = <<stg_lines[i], stg_lines[i], Some(i), Some(i)>>

C2_Witness ==
    /\ pc = "aligned"
    /\ stg_lines = prd_lines
    /\ Len(stg_lines) >= 2
    /\ stg_lines[1] = stg_lines[2]
    /\ Len(aligned) = Len(stg_lines)

\* rows an opcode accounts for: max(ia, ib) for replace, the run length otherwise
RECURSIVE OpcodeRowCount(_)
OpcodeRowCount(ops) ==
    IF ops = <<>> THEN 0
    ELSE Max(Head(ops)[3] - Head(ops)[2], Head(ops)[5] - Head(ops)[4])
         + OpcodeRowCount(Tail(ops))

\* C3: the rows with a staged number carry, in row order, the numbers
\* 1..len(a) once each with text a[n]; the rows with a production number carry
\* 1..len(b) once each with text b[n]; a side without number has empty text;
\* a replace run of ia and ib lines accounts for max(ia, ib) rows.
C3_OrderedCoverage ==
    pc = "aligned" =>
        LET srows == SelectSeq(aligned, HasStgNo)
            prows == SelectSeq(aligned, HasPrdNo)
        IN  /\ Len(srows) = Len(stg_lines)
            /\ \A n \in 1..Len(srows) :
                   srows[n][3] = Some(n) /\ srows[n][1] = stg_lines[n]
            /\ Len(prows) = Len(prd_lines)
            /\ \A n \in 1..Len(prows) :
                   prows[n][4] = Some(n) /\ prows[n][2] = prd_lines[n]
            /\ \A k \in 1..Len(aligned) :
                   /\ ~HasStgNo(aligned[k]) => aligned[k][1] = <<>>
                   /\ ~HasPrdNo(aligned[k]) => aligned[k][2] = <<>>
            /\ Len(aligned) = OpcodeRowCount(get_opcodes(stg_lines, prd_lines))

C3_Witness ==
    /\ pc = "aligned"
    /\ \E op \in {get_opcodes(stg_lines, prd_lines)[n] :
                     n \in 1..Len(get_opcodes(stg_lines, prd_lines))} :
           op[1] = "replace" /\ op[3] - op[2] # op[5] - op[4]
    /\ \E k \in 1..Len(aligned) : HasStgNo(aligned[k]) /\ HasPrdNo(aligned[k])
    /\ \E k \in 1..Len(aligned) : ~HasStgNo(aligned[k]) \/ ~HasPrdNo(aligned[k])

\* each side's number is present exactly when that side put a source line
\* into the row: a numbered side shows that line, an unnumbered side is a gap,
\* and every source line is numbered somewhere
NumbersMarkSourceLines ==
    /\ \A k \in 1..Len(aligned) :
           /\ IF HasStgNo(aligned[k])
              THEN /\ aligned[k][3][1] \in 1..Len(stg_lines)
                   /\ aligned[k][1] = stg_lines[aligned[k][3][1]]
              ELSE aligned[k][1] = <<>>
           /\ IF HasPrdNo(aligned[k])
              THEN /\ aligned[k][4][1] \in 1..Len(prd_lines)
                   /\ aligned[k][2] = prd_lines[aligned[k][4][1]]
              ELSE aligned[k][2] = <<>>
    /\ Cardinality({k \in 1..Len(aligned) : HasStgNo(aligned[k])}) = Len(stg_lines)
    /\ Cardinality({k \in 1..Len(aligned) : HasPrdNo(aligned[k])}) = Len(prd_lines)

NoBlankLine(a) == \A i \in 1..Len(a) : a[i] # <<>>

\* C4 as stated: for any lines, the empty string included, every row has a
\* non-empty text on at least one side, and each side's line number is present
\* exactly when that side contributed a source line.
C4_SomeTextNonEmpty ==
    pc = "aligned" =>
        /\ \A k \in 1..Len(aligned) : aligned[k][1] # <<>> \/ aligned[k][2] # <<>>
        /\ NumbersMarkSourceLines

\* C4 amended: every row has a line number on at least one side, and each
\* side's line number is present exactly when that side contributed a source
\* line; at least one text of every row is non-empty when neither input
\* contains an empty line.
C4_SomeNumberPresent ==
    pc = "aligned" =>
        /\ \A k \in 1..Len(aligned) : HasStgNo(aligned[k]) \/ HasPrdNo(aligned[k])
        /\ NumbersMarkSourceLines
        /\ (NoBlankLine(stg_lines) /\ NoBlankLine(prd_lines)) =>
               \A k \in 1..Len(aligned) :
                   aligned[k][1] # <<>> \/ aligned[k][2] # <<>>

C4_Witness ==
    /\ pc = "aligned"
    /\ \E k \in 1..Len(aligned) :
           /\ aligned[k][1] = <<>> /\ aligned[k][2] = <<>>
           /\ HasStgNo(aligned[k]) /\ ~HasPrdNo(aligned[k])
    /\ \E k \in 1..Len(aligned) : aligned[k][1] # <<>> /\ aligned[k][2] # <<>>

----------------------------------------------------------------------------
(* Properties of _build_rows_for_pair *)

HeaderRowCount == 7

\* the <c> elements of a sheet part's row whose reference is ref
CellsAt(xml_row, ref) ==
    {n \in 1..Len(xml_row.cells) : xml_row.cells[n].r = ref}

\* C5: the k-th aligned row is sheet row r = 7 + k, laid out as
\* [blank, stagedText, matchCell, productionText, note]; matchCell caches "1"
\* when the texts are equal and "0" otherwise, is typed boolean and has the
\* formula B{r}=D{r} for the r at which the row stands in the sheet, which is
\* also the r of the reference C{r} the encoder writes for it; note is the
\* difference note exactly when the texts differ, otherwise empty.
C5_DataRowLayout ==
    pc = "encoded" =>
        /\ Len(rows) = HeaderRowCount + Len(aligned)
        /\ Len(sheet_xml) = Len(rows)
        /\ \A k \in 1..Len(aligned) :
               LET r == HeaderRowCount + k
                   stg == aligned[k][1]
                   prd == aligned[k][2]
                   same == stg = prd
                   ref == <<"C">> \o Str(r)
               IN  /\ Len(rows[r]) = 5
                   /\ rows[r][1] = EmptyCell
                   /\ rows[r][2] = CellValue(stg, None, None)
                   /\ rows[r][3].value = (IF same THEN <<"1">> ELSE <<"0">>)
                   /\ rows[r][3].formula =
                          Some(<<"B">> \o Str(r) \o <<"=", "D">> \o Str(r))
                   /\ rows[r][3].data_type = Some("b")
                   /\ rows[r][4] = CellValue(prd, None, None)
                   /\ rows[r][5].value = (IF same THEN <<>> ELSE DIFF_NOTE)
                   /\ rows[r][5].formula = None
                   /\ Cardinality(CellsAt(sheet_xml[r], ref)) = 1
                   /\ \A n \in CellsAt(sheet_xml[r], ref) :
                          LET c == sheet_xml[r].cells[n]
                          IN  /\ c.f = Some(<<"B">> \o Tail(c.r) \o <<"=", "D">> \o Tail(c.r))
                              /\ c.t = Some("b")
                              /\ c.v = Some(rows[r][3].value)

C5_Witness ==
    /\ pc = "encoded"
    /\ Len(aligned) >= 3
    /\ \E k \in 1..Len(aligned) : aligned[k][1] = aligned[k][2]
    /\ \E k \in 1..Len(aligned) : aligned[k][1] # aligned[k][2]
    /\ rows[10][3].formula = Some(<<"B", "1", "0", "=", "D", "1", "0">>)

----------------------------------------------------------------------------
(* Properties of the archive codec *)

\* the cell has a value or a formula
Occupied(cell) == cell.value # <<>> \/ cell.formula # None

\* the decoded grid shows the given grid: a row per row, every occupied
\* cell at its place with its text and formula, every other place empty
SameGrid(grid, read) ==
    /\ Len(read) = Len(grid)
    /\ \A r \in 1..Len(grid) :
           /\ \A c \in 1..Len(grid[r]) :
                  Occupied(grid[r][c]) =>
                      /\ c <= Len(read[r])
                      /\ read[r][c].value = grid[r][c].value
                      /\ read[r][c].formula = grid[r][c].formula
           /\ \A c \in 1..Len(read[r]) :
                  (c > Len(grid[r]) \/ ~Occupied(grid[r][c])) =>
                      (read[r][c].value = <<>> /\ read[r][c].formula = None)

SameWorkbook(sheets, read) ==
    /\ Len(read) = Len(sheets)
    /\ \A n \in 1..Len(sheets) :
           /\ read[n].name = sheets[n].name
           /\ SameGrid(sheets[n].rows, read[n].rows)

\* C10: decoding with _load_existing_sheets the archive write_xlsx made of a
\* non-empty workbook gives the same sheet names in the same order and, per
\* sheet, a row for every row, every cell that has a value or a formula at
\* its position with the same text and formula, and empty cells elsewhere.
C10_RoundTrip ==
    pc = "loaded" =>
        /\ decoded[1].error = ""
        /\ SameWorkbook(workbook, decoded[1].sheets)

----------------------------------------------------------------------------
(* Properties of generate_workbook *)

\* the sheet names of the workbook at output_path, as its workbook part
\* declares them
DeclaredNames(file) ==
    [n \in 1..Len(file.workbook[1]) |-> ParseAttr(file.workbook[1][n].name)]

\* C7: in every workbook generate_workbook has written, after any number of
\* runs from a fresh path and for any discovered pairs, the sheet names are
\* pairwise distinct and none is the empty string.
C7_NamesDistinctAndNonEmpty ==
    output_file # None =>
        LET names == DeclaredNames(output_file[1])
        IN  /\ \A i, j \in 1..Len(names) : i # j => names[i] # names[j]
            /\ \A i \in 1..Len(names) : names[i] # <<>>

\* C8: a run that finds the workbook of an earlier run at output_path writes
\* a workbook that lists the existing sheets first, in their order, with
\* their names and their cell texts and formulas where they were, followed by
\* the sheets built for the discovered pairs in ascending identifier order.
C8_ExistingSheetsKept ==
    [][(output_file # None /\ run_dirs' # run_dirs /\ pairs' # <<>>) =>
          LET old == _load_existing_sheets(output_file[1])
              new == _load_existing_sheets(output_file'[1])
          IN  /\ outcome' = "ok"
              /\ old.error = ""
              /\ new.error = ""
              /\ Len(new.sheets) = Len(old.sheets) + Len(pairs')
              /\ \A n \in 1..Len(old.sheets) :
                     /\ new.sheets[n].name = old.sheets[n].name
                     /\ SameGrid(old.sheets[n].rows, new.sheets[n].rows)
              /\ \A k \in 1..Len(pairs') :
                     SameGrid(_build_rows_for_pair(pairs'[k].stg_host, pairs'[k].prd_host,
                                                   pairs'[k].stg_lines, pairs'[k].prd_lines),
                              new.sheets[Len(old.sheets) + k].rows)
              /\ \A k \in 1..(Len(pairs') - 1) :
                     TextLess(pairs'[k].base_name, pairs'[k + 1].base_name)
      ]_vars

\* C9: two runs in a row on the same single pair X (at most 31 characters)
\* from an absent output path leave a workbook of exactly two sheets, named
\* X and X.v2 in that order.
C9_SecondRunAddsV2 ==
    (/\ Len(run_dirs) = 2
     /\ run_dirs[1] = run_dirs[2]
     /\ Len(pairs) = 1
     /\ Len(pairs[1].base_name) <= 31) =>
        /\ output_file # None
        /\ LET book == _load_existing_sheets(output_file[1])
               X == pairs[1].base_name
           IN  /\ book.error = ""
               /\ [n \in 1..Len(book.sheets) |-> book.sheets[n].name]
                      = <<X, X \o <<".", "v", "2">>>>

----------------------------------------------------------------------------
(* Properties of decoding for append *)

\* the archive lacks the workbook part, the relationships part, the
\* relationship entry of a declared sheet, or the worksheet part a declared
\* sheet refers to
MissingPart(zf) ==
    \/ zf.workbook = None
    \/ zf.workbook_rels = None
    \/ \E n \in 1..Len(zf.workbook[1]) :
           LET target == RelTarget(zf.workbook_rels[1], zf.workbook[1][n].rid)
           IN  \/ target = None
               \/ PartName(target[1]) \notin DOMAIN zf.worksheets

SheetNames(sheets) == [n \in 1..Len(sheets) |-> sheets[n].name]

\* C11: _load_existing_sheets raises whenever the archive lacks the workbook
\* part, the relationships part, the relationship entry of a declared sheet or
\* the worksheet part of a declared sheet; when it returns, its list names
\* every declared sheet; and a generate_workbook run that succeeds on the
\* archive writes a workbook that still declares every sheet it declared.
C11_MissingPartIsFatal ==
    pc \in {"decoded", "appended"} =>
        /\ MissingPart(archive[1]) => decoded[1].error # ""
        /\ decoded[1].error = "" =>
               SheetNames(decoded[1].sheets) = DeclaredNames(archive[1])
        /\ (pc = "appended" /\ outcome = "ok") =>
               LET before == DeclaredNames(archive[1])
                   after == DeclaredNames(output_file[1])
               IN  /\ Len(after) >= Len(before)
                   /\ SubSeq(after, 1, Len(before)) = before

----------------------------------------------------------------------------
(* Properties of a run that discovers no pair *)

\* C13: a generate_workbook run whose discovery yields no pair raises
\* FileNotFoundError without having tested, read or written output_path, and
\* leaves the archive at output_path (or its absence) as it was.
C13_NoPairsFailsBeforeArchiveWork ==
    [][(run_dirs' # run_dirs /\ pairs' = <<>>) =>
          /\ outcome' = "FileNotFoundError"
          /\ path_ops' = <<>>
          /\ written' = <<>>
          /\ output_file' = output_file
      ]_vars

\* a run without pairs has failed with FileNotFoundError although the archive
\* it found at output_path cannot be decoded
C13_Witness ==
    /\ Len(run_dirs) >= 2
    /\ run_dirs[Len(run_dirs)] = NoPairDir
    /\ pairs = <<>>
    /\ outcome = "FileNotFoundError"
    /\ path_ops = <<>>
    /\ output_file # None
    /\ _load_existing_sheets(output_file[1]).error # ""

----------------------------------------------------------------------------
(* Properties of the verifier *)

\* C12: when generate_workbook has succeeded on an absent output path,
\* verify_logs_against_workbook on the same directory and the same pairs
\* returns True, whatever the pairs (long identifiers and identifiers that
\* share their first 31 characters included).
C12_VerifyPassesAfterFirstRun ==
    (/\ pc = "verified"
     /\ outcome = "ok"
     /\ verification[1].pairs = pairs) =>
        verification[1].result = [error |-> "", ok |-> TRUE]

====
